---------------------------- MODULE Spec2Model ----------------------------
(***************************************************************************)
(* Teleoperation link between an operator station (driver.rs, link.rs)     *)
(* and a robot (robot.rs).                                                 *)
(*                                                                         *)
(*   Spec          operator side: the shared Link slot, the connection     *)
(*                 monitor thread, the telemetry receive thread and        *)
(*                 send_to_robot, with their histories.                    *)
(*   SpecLive      the same threads running forever, for reconnection.     *)
(*   SpecLock      the threads' use of the slot's mutex.                   *)
(*   SpecTick      the gamepad polling timer and the events it drains.     *)
(*   SpecHeartbeat the gamepad polling timer and its PING.                 *)
(*   SpecRobot     robot side: one accepted session of tcp_server with its *)
(*                 accumulator, handle_command and failing ACK writes.     *)
(*   SpecDispatch  the same session with every ACK write succeeding.       *)
(*   SpecMapper    calculate_motor_speeds over a grid of joystick samples. *)
(*                                                                         *)
(* Floats are modelled as exact rationals: an input is an integer number   *)
(* of 1/One units, an output a fraction [num, den].                        *)
(***************************************************************************)
EXTENDS Integers, Sequences, FiniteSets, TLC

VARIABLES
    \* ---- operator side (driver.rs) ----
    slot,                   \* Arc<Mutex<Option<TcpLink>>>: NoLink or the id of the Link held
    last_state,             \* monitor thread local
    current_address_index,  \* monitor thread local
    nextLink,               \* identity the next successfully created TcpLink gets
    notes,                  \* set_connected calls posted to the event loop, in order
    cycleLog,               \* one record per completed monitor cycle
    lastOp,                 \* the Link operation the last step performed
    failedLinks,            \* Links on which a send has failed
    sends,                  \* number of send_to_robot calls so far
    transmitted,            \* messages written to a Link, in order
    linkBorn,               \* per Link: the number of send_to_robot calls before it was created
    readers,                \* per chunk read off a Link: the thread that read it
    telemetry,              \* chunks posted to set_telemetry, in order
    \* ---- robot side (robot.rs) ----
    wire,                   \* bytes written by the client and not yet read
    received,               \* every byte the session has read so far
    buffer,                 \* the session's accumulator (Vec<u8>)
    running,                \* the session loop has not hit a break
    lastRead,               \* outcome of the last stream.read
    events,                 \* dispatches, motor updates and ACK writes, in order
    sent,                   \* number of messages the client has written
    ackFails,               \* number of ACK writes that failed
    \* ---- kinematic mapper (robot.rs) ----
    data,                   \* the JoystickData given to calculate_motor_speeds
    motor_speeds,           \* its result, or NotComputed
    \* ---- reconnection (driver.rs, monitor thread) ----
    accepting,              \* the endpoints that accept every connect once settled
    settled,                \* the endpoints of `accepting` accept from now on
    emptyCycles,            \* monitor cycles in a row that found the slot empty and left it so
    \* ---- the slot's mutex (driver.rs) ----
    lock,                   \* the thread whose MutexGuard is alive, or "free"
    monPc,                  \* where the monitor thread is in its cycle
    sendPc,                 \* where the timer's send_to_robot call is
    telPc,                  \* where the telemetry receive thread is
    \* ---- gamepad polling timer (driver.rs) ----
    since_ping,             \* last_ping_time.elapsed() when the last tick returned, in ms
    joystick_values,        \* the tick's JoystickData sample
    tickElapsed,            \* last_ping_time.elapsed() as the last tick read it
    tickEvents,             \* the events the last tick drained from gilrs
    tickMsgs,               \* the messages the last tick handed to send_to_robot, in order
    staleAxis               \* before the last tick some axis was off zero, and the tick drained no change of it

opVars     == <<slot, last_state, current_address_index, nextLink, notes,
                cycleLog, lastOp, failedLinks, sends, transmitted, linkBorn,
                readers, telemetry>>
robotVars  == <<wire, received, buffer, running, lastRead, events, sent,
                ackFails>>
mapperVars == <<data, motor_speeds>>
liveVars   == <<accepting, settled, emptyCycles>>
lockVars   == <<lock, monPc, sendPc, telPc>>
tickVars   == <<since_ping, joystick_values, tickElapsed, tickEvents, tickMsgs,
                staleAxis>>
vars       == <<opVars, robotVars, mapperVars, liveVars, lockVars, tickVars>>

\* What the steps of one component leave alone
nonOpVars     == <<robotVars, mapperVars, liveVars, lockVars, tickVars>>
nonRobotVars  == <<opVars, mapperVars, liveVars, lockVars, tickVars>>
nonMapperVars == <<opVars, robotVars, liveVars, lockVars, tickVars>>

(***************************************************************************)
(* Bounds of the model.                                                    *)
(***************************************************************************)
MaxCycles == 4      \* monitor cycles explored
MaxSends  == 2      \* send_to_robot calls explored
MaxChunks == 2      \* chunks read off the operator's Links
MaxEvents == 2      \* events one tick of the polling timer drains
MaxSent   == 2      \* messages the client of a session writes
MaxAckFails == 1    \* ACK writes that fail in a session

(***************************************************************************)
(* Operator side                                                           *)
(***************************************************************************)
\* driver.rs:32: the slot starts as None; Link identities are 1, 2, ...
NoLink == 0

\* addresses (driver.rs:34-37): 127.0.0.1:5000 and 10.42.0.85:5000
NumAddresses == 2

\* link.rs ReadState, plus the Err(_) arm of try_read
ReadResults == {"Message", "WouldBlock", "Disconnected", "Err"}

\* Messages handed to send_to_robot
Messages == {"PING", "BTN", "JOYSTICKS"}

NoOp == [actor |-> "none", kind |-> "none", link |-> NoLink, addr |-> 0,
         result |-> "none"]

OpInit ==
    /\ slot = NoLink
    /\ last_state = FALSE
    /\ current_address_index = 0
    /\ nextLink = 1
    /\ notes = <<>>
    /\ cycleLog = <<>>
    /\ lastOp = NoOp
    /\ failedLinks = {}
    /\ sends = 0
    /\ transmitted = <<>>
    /\ linkBorn = <<>>
    /\ readers = <<>>
    /\ telemetry = <<>>

\* driver.rs:51-55: the value of `connected` for a try_read result
AliveAfterRead(r) == r \in {"Message", "WouldBlock"}

\* driver.rs:66
NextAddressIndexStuck(i) == i
NextAddressIndex(i) == (i + 1) % NumAddresses

\* driver.rs:72: the monitor notifies on an edge only
StateChangedLevel(connected, last) == connected
StateChanged(connected, last) == connected # last

\* driver.rs:72-80
NotifyIfChanged(connected) ==
    IF StateChanged(connected, last_state)
    THEN /\ notes' = Append(notes, [by |-> "monitor", value |-> connected])
         /\ last_state' = connected
    ELSE /\ notes' = notes
         /\ last_state' = last_state

\* driver.rs:51 and driver.rs:94-100: only the telemetry thread posts the
\* chunk of a Message to set_telemetry; the monitor drops it
TelemetryAfterReadByAnyone(t, actor, r, chunk) ==
    IF r = "Message" THEN Append(t, chunk) ELSE t
TelemetryAfterRead(t, actor, r, chunk) ==
    IF actor = "telemetry" /\ r = "Message" THEN Append(t, chunk) ELSE t

\* link.rs:28-36: a try_read that returns Message takes one chunk off the stream
ReadersAfterRead(actor, r) ==
    IF r = "Message" THEN Append(readers, actor) ELSE readers

\* driver.rs:49-56: a Link is present, one try_read
MonitorPoll(r) ==
    /\ Len(cycleLog) < MaxCycles
    /\ slot # NoLink
    /\ r = "Message" => Len(readers) < MaxChunks
    /\ readers' = ReadersAfterRead("monitor", r)
    /\ telemetry' = TelemetryAfterRead(telemetry, "monitor", r, Len(readers) + 1)
    /\ slot' = IF AliveAfterRead(r) THEN slot ELSE NoLink
    /\ NotifyIfChanged(AliveAfterRead(r))
    /\ lastOp' = [actor |-> "monitor", kind |-> "try_read", link |-> slot,
                  addr |-> current_address_index, result |-> r]
    /\ cycleLog' = Append(cycleLog,
           [branch |-> "try_read", addr |-> current_address_index,
            next |-> current_address_index, connected |-> AliveAfterRead(r),
            notified |-> Len(notes') > Len(notes)])
    /\ UNCHANGED <<current_address_index, nextLink, failedLinks, sends,
                   transmitted, linkBorn>>
    /\ UNCHANGED nonOpVars

\* driver.rs:57-70: no Link, one connect attempt against the current candidate
MonitorConnect(ok) ==
    /\ Len(cycleLog) < MaxCycles
    /\ slot = NoLink
    /\ slot' = IF ok THEN nextLink ELSE NoLink
    /\ nextLink' = IF ok THEN nextLink + 1 ELSE nextLink
    /\ linkBorn' = IF ok THEN Append(linkBorn, sends) ELSE linkBorn
    /\ current_address_index' =
           IF ok THEN current_address_index
                 ELSE NextAddressIndex(current_address_index)
    /\ NotifyIfChanged(ok)
    /\ lastOp' = [actor |-> "monitor", kind |-> "connect",
                  link |-> IF ok THEN nextLink ELSE NoLink,
                  addr |-> current_address_index,
                  result |-> IF ok THEN "Ok" ELSE "Err"]
    /\ cycleLog' = Append(cycleLog,
           [branch |-> "connect", addr |-> current_address_index,
            next |-> current_address_index', connected |-> ok,
            notified |-> Len(notes') > Len(notes)])
    /\ UNCHANGED <<failedLinks, sends, transmitted, readers, telemetry>>
    /\ UNCHANGED nonOpVars

\* driver.rs:90-106: telemetry receive thread, one iteration
TelemetryPoll(r) ==
    /\ slot # NoLink
    /\ r = "Message" => Len(readers) < MaxChunks
    /\ readers' = ReadersAfterRead("telemetry", r)
    /\ telemetry' = TelemetryAfterRead(telemetry, "telemetry", r, Len(readers) + 1)
    /\ lastOp' = [actor |-> "telemetry", kind |-> "try_read", link |-> slot,
                  addr |-> current_address_index, result |-> r]
    /\ UNCHANGED <<slot, last_state, current_address_index, nextLink, notes,
                   cycleLog, failedLinks, sends, transmitted, linkBorn>>
    /\ UNCHANGED nonOpVars

TelemetryIdle ==
    /\ slot = NoLink
    /\ lastOp' = [NoOp EXCEPT !.actor = "telemetry"]
    /\ UNCHANGED <<slot, last_state, current_address_index, nextLink, notes,
                   cycleLog, failedLinks, sends, transmitted, linkBorn,
                   readers, telemetry>>
    /\ UNCHANGED nonOpVars

\* driver.rs:194-195: the slot after link.send returned
SlotAfterSendKept(s, ok) == s
SlotAfterSend(s, ok) == IF ok THEN s ELSE NoLink

\* driver.rs:193-201: send_to_robot posts set_connected(false) only when a
\* send on a present Link fails
SendNotifiesOnDrop(s, ok) == s = NoLink \/ ~ok
SendNotifies(s, ok) == s # NoLink /\ ~ok

\* driver.rs:193-194, link.rs:24-26: the message reaches the Link only when
\* a Link is present and write_all succeeds
TransmittedAfterSend(t, s, m, ok) ==
    IF s # NoLink /\ ok THEN Append(t, [id |-> m.id, msg |-> m.msg, link |-> s]) ELSE t

\* driver.rs:187-205; the message of the k-th call has id k
SendToRobot(message, ok) ==
    /\ sends < MaxSends
    /\ sends' = sends + 1
    /\ transmitted' = TransmittedAfterSend(transmitted, slot,
                                           [id |-> sends + 1, msg |-> message], ok)
    /\ notes' = IF SendNotifies(slot, ok)
                THEN Append(notes, [by |-> "send_to_robot", value |-> FALSE])
                ELSE notes
    /\ IF slot # NoLink
       THEN /\ slot' = SlotAfterSend(slot, ok)
            /\ failedLinks' = IF ok THEN failedLinks ELSE failedLinks \cup {slot}
            /\ lastOp' = [actor |-> "send_to_robot", kind |-> "send", link |-> slot,
                          addr |-> current_address_index,
                          result |-> IF ok THEN "Ok" ELSE "Err"]
       ELSE /\ lastOp' = [NoOp EXCEPT !.actor = "send_to_robot"]
            /\ UNCHANGED <<slot, failedLinks>>
    /\ UNCHANGED <<last_state, current_address_index, nextLink, cycleLog,
                   linkBorn, readers, telemetry>>
    /\ UNCHANGED nonOpVars

Next ==
    \/ \E r \in ReadResults : MonitorPoll(r)
    \/ \E ok \in BOOLEAN : MonitorConnect(ok)
    \/ \E r \in ReadResults : TelemetryPoll(r)
    \/ TelemetryIdle
    \/ \E m \in Messages, ok \in BOOLEAN : SendToRobot(m, ok)

(***************************************************************************)
(* Operator side: reconnection without end.  The same threads as in Spec,  *)
(* with the slot, last_state and current_address_index as they are in the  *)
(* code; the histories of Spec (notes, cycleLog, ...) are not recorded, so *)
(* that the monitor can cycle forever.                                     *)
(***************************************************************************)
Endpoints == 0..(NumAddresses - 1)

LiveIdle ==
    /\ accepting = {}
    /\ settled = FALSE
    /\ emptyCycles = 0

\* Some endpoint of the list accepts connections from some point on
LiveInit ==
    /\ accepting \in (SUBSET Endpoints) \ {{}}
    /\ settled = FALSE
    /\ emptyCycles = 0

\* TcpLink::connect returns Ok or Err; an accepting endpoint returns Ok
ConnectResults == {ok \in BOOLEAN : (settled /\ current_address_index \in accepting) => ok}

liveFrame == <<nextLink, notes, cycleLog, failedLinks, sends, transmitted,
               linkBorn, readers, telemetry>>

\* driver.rs:49-56, 72-83
LiveMonitorPoll(r) ==
    /\ slot # NoLink
    /\ slot' = IF AliveAfterRead(r) THEN slot ELSE NoLink
    /\ last_state' = AliveAfterRead(r)
    /\ emptyCycles' = 0
    /\ lastOp' = [actor |-> "monitor", kind |-> "try_read", link |-> slot,
                  addr |-> current_address_index, result |-> r]
    /\ UNCHANGED <<current_address_index, accepting, settled>>
    /\ UNCHANGED <<liveFrame, robotVars, mapperVars, lockVars, tickVars>>

\* driver.rs:57-70, 72-83
LiveMonitorConnect(ok) ==
    /\ slot = NoLink
    /\ ok \in ConnectResults
    /\ slot' = IF ok THEN nextLink ELSE NoLink
    /\ current_address_index' =
           IF ok THEN current_address_index
                 ELSE NextAddressIndex(current_address_index)
    /\ last_state' = ok
    /\ emptyCycles' = IF ok THEN 0
                      ELSE IF emptyCycles < NumAddresses THEN emptyCycles + 1
                      ELSE emptyCycles
    /\ lastOp' = [actor |-> "monitor", kind |-> "connect",
                  link |-> IF ok THEN nextLink ELSE NoLink,
                  addr |-> current_address_index,
                  result |-> IF ok THEN "Ok" ELSE "Err"]
    /\ UNCHANGED <<accepting, settled>>
    /\ UNCHANGED <<liveFrame, robotVars, mapperVars, lockVars, tickVars>>

\* driver.rs:43-85: one cycle of the monitor thread
LiveMonitorCycle ==
    \/ \E r \in ReadResults : LiveMonitorPoll(r)
    \/ \E ok \in BOOLEAN : LiveMonitorConnect(ok)

\* driver.rs:90-106
LiveTelemetryPoll(r) ==
    /\ slot # NoLink
    /\ lastOp' = [actor |-> "telemetry", kind |-> "try_read", link |-> slot,
                  addr |-> current_address_index, result |-> r]
    /\ UNCHANGED <<slot, last_state, current_address_index, liveVars>>
    /\ UNCHANGED <<liveFrame, robotVars, mapperVars, lockVars, tickVars>>

\* driver.rs:187-205
LiveSendToRobot(ok) ==
    /\ IF slot # NoLink
       THEN /\ slot' = SlotAfterSend(slot, ok)
            /\ lastOp' = [actor |-> "send_to_robot", kind |-> "send", link |-> slot,
                          addr |-> current_address_index,
                          result |-> IF ok THEN "Ok" ELSE "Err"]
       ELSE /\ slot' = slot
            /\ lastOp' = [NoOp EXCEPT !.actor = "send_to_robot"]
    /\ UNCHANGED <<last_state, current_address_index, liveVars>>
    /\ UNCHANGED <<liveFrame, robotVars, mapperVars, lockVars, tickVars>>

\* From this step on every connect to an endpoint of `accepting` succeeds
Settle ==
    /\ ~settled
    /\ settled' = TRUE
    /\ emptyCycles' = 0
    /\ UNCHANGED accepting
    /\ UNCHANGED <<opVars, robotVars, mapperVars, lockVars, tickVars>>

LiveNext ==
    \/ \E r \in ReadResults : LiveMonitorPoll(r)
    \/ \E ok \in BOOLEAN : LiveMonitorConnect(ok)
    \/ \E r \in ReadResults : LiveTelemetryPoll(r)
    \/ \E ok \in BOOLEAN : LiveSendToRobot(ok)
    \/ Settle

(***************************************************************************)
(* Operator side: the mutex of the slot.  Each thread calls lock(), waits  *)
(* for the guard, works on the slot and drops the guard; the monitor's     *)
(* connect is split into its start and its return.                         *)
(***************************************************************************)
LockInit ==
    /\ lock = "free"
    /\ monPc = "sleep"
    /\ sendPc = "idle"
    /\ telPc = "idle"

lockFrame == <<nextLink, notes, cycleLog, lastOp, failedLinks, sends,
               transmitted, linkBorn, readers, telemetry, robotVars,
               mapperVars, liveVars, tickVars>>

\* driver.rs:47: link_clone_conn.lock() is called
MonCall ==
    /\ monPc = "sleep"
    /\ monPc' = "wait"
    /\ UNCHANGED <<lock, sendPc, telPc, slot, last_state, current_address_index>>
    /\ UNCHANGED lockFrame

\* driver.rs:47: lock() returns the guard
MonAcquire ==
    /\ monPc = "wait" /\ lock = "free"
    /\ lock' = "monitor"
    /\ monPc' = "locked"
    /\ UNCHANGED <<sendPc, telPc, slot, last_state, current_address_index>>
    /\ UNCHANGED lockFrame

\* driver.rs:49-56, 72-80
MonTryRead(r) ==
    /\ monPc = "locked" /\ slot # NoLink
    /\ slot' = IF AliveAfterRead(r) THEN slot ELSE NoLink
    /\ last_state' = AliveAfterRead(r)
    /\ monPc' = "done"
    /\ UNCHANGED <<lock, sendPc, telPc, current_address_index>>
    /\ UNCHANGED lockFrame

\* driver.rs:58-60: TcpLink::connect is entered, the guard of driver.rs:47
\* still alive
MonConnectStart ==
    /\ monPc = "locked" /\ slot = NoLink
    /\ monPc' = "connecting"
    /\ UNCHANGED <<lock, sendPc, telPc, slot, last_state, current_address_index>>
    /\ UNCHANGED lockFrame

\* driver.rs:60-69, 72-80: TcpLink::connect returns
MonConnectReturn(ok) ==
    /\ monPc = "connecting"
    /\ slot' = IF ok THEN nextLink ELSE NoLink
    /\ current_address_index' =
           IF ok THEN current_address_index
                 ELSE NextAddressIndex(current_address_index)
    /\ last_state' = ok
    /\ monPc' = "done"
    /\ UNCHANGED <<lock, sendPc, telPc>>
    /\ UNCHANGED lockFrame

\* driver.rs:82-83: drop(guard), then sleep
MonRelease ==
    /\ monPc = "done"
    /\ lock' = "free"
    /\ monPc' = "sleep"
    /\ UNCHANGED <<sendPc, telPc, slot, last_state, current_address_index>>
    /\ UNCHANGED lockFrame

\* driver.rs:192: the timer callback's send_to_robot calls link_arc.lock()
SendCall ==
    /\ sendPc = "idle"
    /\ sendPc' = "wait"
    /\ UNCHANGED <<lock, monPc, telPc, slot, last_state, current_address_index>>
    /\ UNCHANGED lockFrame

\* driver.rs:192: lock() returns the guard
SendAcquire ==
    /\ sendPc = "wait" /\ lock = "free"
    /\ lock' = "send_to_robot"
    /\ sendPc' = "locked"
    /\ UNCHANGED <<monPc, telPc, slot, last_state, current_address_index>>
    /\ UNCHANGED lockFrame

\* driver.rs:193-204: the send, and the guard dropped at the end of the block
SendRelease(ok) ==
    /\ sendPc = "locked"
    /\ slot' = IF slot # NoLink THEN SlotAfterSend(slot, ok) ELSE slot
    /\ lock' = "free"
    /\ sendPc' = "idle"
    /\ UNCHANGED <<monPc, telPc, last_state, current_address_index>>
    /\ UNCHANGED lockFrame

\* driver.rs:91: link_for_rx.lock() is called
TelCall ==
    /\ telPc = "idle"
    /\ telPc' = "wait"
    /\ UNCHANGED <<lock, monPc, sendPc, slot, last_state, current_address_index>>
    /\ UNCHANGED lockFrame

\* driver.rs:91: lock() returns the guard
TelAcquire ==
    /\ telPc = "wait" /\ lock = "free"
    /\ lock' = "telemetry"
    /\ telPc' = "locked"
    /\ UNCHANGED <<monPc, sendPc, slot, last_state, current_address_index>>
    /\ UNCHANGED lockFrame

\* driver.rs:92-103: the try_read, and the guard dropped before the sleep
TelRelease ==
    /\ telPc = "locked"
    /\ lock' = "free"
    /\ telPc' = "idle"
    /\ UNCHANGED <<monPc, sendPc, slot, last_state, current_address_index>>
    /\ UNCHANGED lockFrame

LockNext ==
    \/ MonCall
    \/ MonAcquire
    \/ \E r \in ReadResults : MonTryRead(r)
    \/ MonConnectStart
    \/ \E ok \in BOOLEAN : MonConnectReturn(ok)
    \/ MonRelease
    \/ SendCall
    \/ SendAcquire
    \/ \E ok \in BOOLEAN : SendRelease(ok)
    \/ TelCall
    \/ TelAcquire
    \/ TelRelease

(***************************************************************************)
(* Operator side: properties                                               *)
(***************************************************************************)
\* The `connected` value of every completed monitor cycle, in order
ConnectedSeq == [i \in 1..Len(cycleLog) |-> cycleLog[i].connected]

\* The values the monitor thread has notified, in order
MonitorNotes ==
    LET mine == SelectSeq(notes, LAMBDA n : n.by = "monitor")
    IN  [i \in 1..Len(mine) |-> mine[i].value]

\* Every value delivered to set_connected, whoever posted it
Delivered == [i \in 1..Len(notes) |-> notes[i].value]

\* The values of s that differ from their predecessor (prev before the first)
RECURSIVE EdgesOf(_, _)
EdgesOf(s, prev) ==
    IF s = <<>> THEN <<>>
    ELSE IF Head(s) # prev THEN <<Head(s)>> \o EdgesOf(Tail(s), Head(s))
    ELSE EdgesOf(Tail(s), prev)

\* C1: the monitor notifies in a cycle iff that cycle's `connected` differs
\* from the previous cycle's (FALSE before the first cycle), and the
\* notification carries the new value; so the monitor's notifications are
\* exactly the edges of the sequence of `connected` values.
C1_EdgeTriggered ==
    /\ \A i \in 1..Len(cycleLog) :
           cycleLog[i].notified <=>
               (cycleLog[i].connected #
                   (IF i = 1 THEN FALSE ELSE cycleLog[i - 1].connected))
    /\ MonitorNotes = EdgesOf(ConnectedSeq, FALSE)

\* C1 witness: cycles disconnected, connected, connected, disconnected gave
\* exactly the notifications true, false.
C1_Witness ==
    /\ ConnectedSeq = <<FALSE, TRUE, TRUE, FALSE>>
    /\ MonitorNotes = <<TRUE, FALSE>>

\* C2: over all emitters, the values delivered to set_connected strictly
\* alternate true, false, true, ... and no transition of the slot is left
\* without a notification (the last delivered value tells whether the slot
\* holds a Link).
C2_OncePerTransition ==
    /\ \A i \in 1..Len(Delivered) : Delivered[i] = (i % 2 = 1)
    /\ (IF notes = <<>> THEN FALSE ELSE Delivered[Len(notes)]) = (slot # NoLink)

\* C3: a failed send on a present Link leaves the slot empty; with the slot
\* empty the monitor's cycle is a connect attempt against the current
\* candidate and nobody else fills the slot; no try_read or send is ever
\* performed on a Link whose send has failed.
C3_SendFailureReconnects ==
    [][ /\ (lastOp'.kind = "send" /\ lastOp'.result = "Err") => slot' = NoLink
        /\ (slot = NoLink /\ lastOp'.actor = "monitor") =>
               (lastOp'.kind = "connect" /\ lastOp'.addr = current_address_index)
        /\ (slot = NoLink /\ lastOp'.actor # "monitor") => slot' = NoLink
        /\ lastOp'.kind \in {"try_read", "send"} => lastOp'.link \notin failedLinks
      ]_vars

\* C3 witness: a Link was alive at the previous monitor cycle, a send on it
\* failed, and the monitor's next cycle was a connect attempt.
C3_Witness ==
    /\ Len(cycleLog) >= 2
    /\ cycleLog[Len(cycleLog) - 1].connected
    /\ failedLinks # {}
    /\ lastOp.actor = "monitor" /\ lastOp.kind = "connect"

FailedConnect(c) == c.branch = "connect" /\ ~c.connected

\* C4: the candidate index stays in 0..N-1, advances by one modulo N exactly
\* on a failed connect attempt and is unchanged by every other cycle; any N
\* consecutive failed connect attempts target N different endpoints.
C4_RoundRobin ==
    /\ current_address_index \in 0..(NumAddresses - 1)
    /\ \A i \in 1..Len(cycleLog) :
           /\ cycleLog[i].addr \in 0..(NumAddresses - 1)
           /\ cycleLog[i].next =
                  IF FailedConnect(cycleLog[i])
                  THEN (cycleLog[i].addr + 1) % NumAddresses
                  ELSE cycleLog[i].addr
           /\ i > 1 => cycleLog[i].addr = cycleLog[i - 1].next
    /\ \A i \in 1..Len(cycleLog) :
           (i + NumAddresses - 1 <= Len(cycleLog)
              /\ \A k \in 0..(NumAddresses - 1) : FailedConnect(cycleLog[i + k]))
           => Cardinality({cycleLog[i + k].addr : k \in 0..(NumAddresses - 1)})
                  = NumAddresses

\* C4 witness: N consecutive failed connects followed by one more, which
\* returns to the first endpoint.
C4_Witness ==
    /\ Len(cycleLog) > NumAddresses
    /\ \A i \in 1..(NumAddresses + 1) : FailedConnect(cycleLog[i])
    /\ cycleLog[NumAddresses + 1].addr = cycleLog[1].addr

\* The set_connected calls posted by send_to_robot
SendNotes == SelectSeq(notes, LAMBDA n : n.by = "send_to_robot")

\* C11: a send_to_robot call with the slot empty changes nothing (nothing is
\* transmitted, nothing notified, slot and monitor state as before); a
\* message reaches a Link only during its own call, on the Link then in the
\* slot, so a dropped or failed message is never transmitted later and every
\* message transmitted on a Link was produced after that Link was created;
\* send_to_robot notifies exactly when a send on a present Link fails.
C11_FireAndForget ==
    /\ [][ /\ (slot = NoLink /\ sends' # sends) =>
                  UNCHANGED <<slot, last_state, current_address_index, nextLink,
                              notes, cycleLog, failedLinks, transmitted,
                              linkBorn, readers, telemetry>>
           /\ transmitted' # transmitted =>
                  /\ slot # NoLink /\ sends' = sends + 1
                  /\ Len(transmitted') = Len(transmitted) + 1
                  /\ SubSeq(transmitted', 1, Len(transmitted)) = transmitted
                  /\ transmitted'[Len(transmitted')].id = sends'
                  /\ transmitted'[Len(transmitted')].link = slot
           /\ (Len(SendNotes') > Len(SendNotes)) <=>
                  (lastOp'.kind = "send" /\ lastOp'.result = "Err")
         ]_vars
    /\ [](\A i \in 1..Len(transmitted) :
             /\ transmitted[i].id > linkBorn[transmitted[i].link]
             /\ i > 1 => transmitted[i].id > transmitted[i - 1].id)

\* C11 witness: the first message was dropped with the slot empty and without
\* a notification; after the connection only the second message is on the Link.
C11_Witness ==
    /\ sends = 2
    /\ Len(transmitted) = 1 /\ transmitted[1].id = 2 /\ transmitted[1].link = 1
    /\ linkBorn = <<1>>
    /\ SendNotes = <<>>

\* C12: once some endpoint accepts for good, an empty slot is populated
\* again by the monitor, and that within NumAddresses cycles: fewer than
\* NumAddresses cycles in a row leave it empty.
C12_Reconnects ==
    /\ (settled /\ slot = NoLink) ~> (slot # NoLink)
    /\ [](settled /\ slot = NoLink => emptyCycles < NumAddresses)

\* C12 witness: the only accepting endpoint is the second of the list; a
\* connect to the first failed, and the monitor populated the slot from the
\* second.
C12_Witness ==
    /\ settled /\ accepting = {1}
    /\ slot # NoLink
    /\ lastOp.actor = "monitor" /\ lastOp.kind = "connect"
    /\ lastOp.result = "Ok" /\ lastOp.addr = 1

\* C16: the monitor never holds the slot's lock during a connect attempt
\* while send_to_robot or the telemetry thread waits for the lock.
C16_NoLockAcrossConnect ==
    ~(/\ lock = "monitor" /\ monPc = "connecting"
      /\ (sendPc = "wait" \/ telPc = "wait"))

LastNotified == IF notes = <<>> THEN FALSE ELSE notes[Len(notes)].value

\* C13: at the end of every monitor cycle the value of the most recent
\* set_connected notification (false if none) tells whether the slot holds
\* a Link.
C13_SignalInSync ==
    lastOp.actor = "monitor" => (LastNotified = (slot # NoLink))

\* C15: whenever an actor's try_read or send on the Link reports
\* Disconnected or an error, the slot is empty when that actor releases the
\* lock.
C15_FailureDestroysLink ==
    (lastOp.kind \in {"try_read", "send"} /\ lastOp.result \in {"Disconnected", "Err"})
        => slot = NoLink

\* C20: every chunk read off a Link was read by exactly one of the two
\* threads; the chunks posted to set_telemetry are exactly those the
\* telemetry thread read, each once and in order, and none of those the
\* monitor read.
C20_OneReaderPerChunk ==
    /\ \A i \in 1..Len(readers) : readers[i] \in {"monitor", "telemetry"}
    /\ telemetry = SelectSeq([i \in 1..Len(readers) |-> i],
                             LAMBDA i : readers[i] = "telemetry")

\* C20 witness: the monitor read (and dropped) the first chunk, the telemetry
\* thread the second, which alone is shown.
C20_Witness ==
    /\ readers = <<"monitor", "telemetry">>
    /\ telemetry = <<2>>

(***************************************************************************)
(* Kinematic mapper (robot.rs)                                             *)
(*                                                                         *)
(* An f32 is an integer number of 1/One units; a result component is the   *)
(* exact fraction num/den (den > 0), so the f32 division x / max_speed is  *)
(* the fraction [x, max_speed].                                            *)
(***************************************************************************)
\* the f32 value 1.0 (robot.rs:24) in model units
One == 10

MaxHalves == 4      \* the grid of samples is -MaxHalves/2 .. MaxHalves/2 in steps of 0.5

\* no motor speeds set
NotComputed == <<>>

Abs(x) == IF x < 0 THEN -x ELSE x

Max2(a, b) == IF a >= b THEN a ELSE b

\* robot.rs:14-17
RawSpeeds(d) ==
    <<  d.lx + d.ly + d.rx,
       -d.lx + d.ly - d.rx,
       -d.lx - d.ly + d.rx,
        d.lx - d.ly - d.rx >>

\* robot.rs:19-22
MaxSpeed(m) == Max2(Max2(Max2(Abs(m[1]), Abs(m[2])), Abs(m[3])), Abs(m[4]))

\* robot.rs:24
NeedsScalingNever(max_speed) == FALSE
NeedsScalingAnyMotion(max_speed) == max_speed > 0
NeedsScaling(max_speed) == max_speed > One

\* robot.rs:13-32
calculate_motor_speeds(d) ==
    LET m == RawSpeeds(d)
        max_speed == MaxSpeed(m)
    IN  IF NeedsScaling(max_speed)
        THEN [i \in 1..4 |-> [num |-> m[i], den |-> max_speed]]
        ELSE [i \in 1..4 |-> [num |-> m[i], den |-> One]]

GridValues == {k * (One \div 2) : k \in (-MaxHalves)..MaxHalves}

JoystickSamples == [lx : GridValues, ly : GridValues, rx : GridValues, ry : GridValues]

(***************************************************************************)
(* Command dispatcher (robot.rs handle_command)                            *)
(*                                                                         *)
(* A byte is a one-character string, a line a sequence of bytes.           *)
(***************************************************************************)
NL == "\n"

\* a byte that is not valid UTF-8 on its own, and U+FFFD
InvalidByte == "\\xFF"
Replacement == "\\uFFFD"

WhiteSpace == {" ", "\t", "\r", NL}

Digits == {"0", "1", "2", "3", "4", "5", "6", "7", "8", "9"}

DigitValue(c) ==
    CASE c = "0" -> 0 [] c = "1" -> 1 [] c = "2" -> 2 [] c = "3" -> 3
      [] c = "4" -> 4 [] c = "5" -> 5 [] c = "6" -> 6 [] c = "7" -> 7
      [] c = "8" -> 8 [] c = "9" -> 9

\* robot.rs:94: String::from_utf8_lossy on the bytes of a line
Utf8Lossy(bytes) ==
    [i \in 1..Len(bytes) |-> IF bytes[i] = InvalidByte THEN Replacement ELSE bytes[i]]

\* Index of the first element of s that is in set, 0 when there is none
FirstPos(s, set) ==
    IF \E i \in 1..Len(s) : s[i] \in set
    THEN CHOOSE i \in 1..Len(s) : s[i] \in set /\ \A j \in 1..(i - 1) : s[j] \notin set
    ELSE 0

\* str::split on a set of separators: empty pieces are kept
RECURSIVE Split(_, _)
Split(s, seps) ==
    LET p == FirstPos(s, seps)
    IN  IF p = 0 THEN <<s>>
        ELSE <<SubSeq(s, 1, p - 1)>> \o Split(SubSeq(s, p + 1, Len(s)), seps)

\* robot.rs:35: cmd.trim().split_whitespace()
SplitWhitespace(s) == SelectSeq(Split(s, WhiteSpace), LAMBDA t : t # <<>>)

\* The decimal literals f32::from_str accepts: an optional sign, digits with
\* at most one '.', at least one digit.  (Exponent, inf and nan forms need
\* bytes no message of the model carries after JOYSTICKS.)
IsF32(tok) ==
    LET body == IF tok # <<>> /\ Head(tok) \in {"-", "+"} THEN Tail(tok) ELSE tok
    IN  /\ \A i \in 1..Len(body) : body[i] \in Digits \cup {"."}
        /\ Cardinality({i \in 1..Len(body) : body[i] = "."}) <= 1
        /\ \E i \in 1..Len(body) : body[i] \in Digits

RECURSIVE DecimalValue(_)
DecimalValue(ds) ==
    IF ds = <<>> THEN 0
    ELSE 10 * DecimalValue(SubSeq(ds, 1, Len(ds) - 1)) + DigitValue(ds[Len(ds)])

\* Value of a literal in 1/One units; the model's literals carry at most one
\* fractional digit, further ones are dropped
F32Value(tok) ==
    LET neg  == tok # <<>> /\ Head(tok) = "-"
        body == IF tok # <<>> /\ Head(tok) \in {"-", "+"} THEN Tail(tok) ELSE tok
        dot  == FirstPos(body, {"."})
        ip   == IF dot = 0 THEN body ELSE SubSeq(body, 1, dot - 1)
        fp   == IF dot = 0 \/ dot = Len(body) THEN 0 ELSE DigitValue(body[dot + 1])
        v    == DecimalValue(ip) * One + fp
    IN  IF neg THEN -v ELSE v

\* robot.rs:46-49: split(',').filter_map(|s| s.parse().ok()).collect()
ParsedSpeeds(values_str) ==
    LET toks == SelectSeq(Split(values_str, {","}), IsF32)
    IN  [i \in 1..Len(toks) |-> F32Value(toks[i])]

\* robot.rs:51
ValidCountAtLeast(n) == n >= 4
ValidCount(n) == n = 4

JOYSTICKS    == <<"J", "O", "Y", "S", "T", "I", "C", "K", "S">>
PING         == <<"P", "I", "N", "G">>
BUTTON_PRESS == <<"B", "U", "T", "T", "O", "N", "_", "P", "R", "E", "S", "S">>

\* robot.rs:34-71: what handle_command does with a line, and the motor
\* speeds it sets (NotComputed when calculate_motor_speeds is not called)
handle_command(cmd) ==
    LET parts == SplitWhitespace(cmd)
        quiet(o) == [outcome |-> o, speeds |-> NotComputed]
    IN  IF parts = <<>> THEN quiet("empty")
        ELSE IF parts[1] = BUTTON_PRESS THEN quiet("action")
        ELSE IF parts[1] = PING THEN quiet("ping")
        ELSE IF parts[1] = JOYSTICKS THEN
            IF Len(parts) < 2 THEN quiet("no_payload")
            ELSE LET speeds == ParsedSpeeds(parts[2])
                 IN  IF ValidCount(Len(speeds))
                     THEN [outcome |-> "motor",
                           speeds |-> calculate_motor_speeds(
                               [lx |-> speeds[1], ly |-> speeds[2],
                                rx |-> speeds[3], ry |-> speeds[4]])]
                     ELSE quiet("invalid_count")
        ELSE quiet("unknown")

(***************************************************************************)
(* Per-connection session (robot.rs tcp_server, the spawned thread)        *)
(***************************************************************************)
\* robot.rs:84: temp_buf = [0; 512]
TempBufSize == 512

\* Lines a client writes, each followed by a newline
JoyFour    == JOYSTICKS \o <<" ", "1", ",", "1", ",", "0", ",", "0">>
JoyThree   == JOYSTICKS \o <<" ", "1", ",", "2", ",", "3">>
JoyFive    == JOYSTICKS \o <<" ", "1", ",", "2", ",", "3", ",", "4", ",", "5">>
JoyFiveBad == JOYSTICKS \o <<" ", "1", ",", "2", ",", "x", ",", "3", ",", "4">>
PingBadUtf == PING \o <<InvalidByte>>
EmptyLine  == <<>>

\* Every kind of line handle_command tells apart
ClientLines == {JoyFour, JoyThree, JoyFive, JoyFiveBad, JOYSTICKS, PING,
                BUTTON_PRESS, PingBadUtf, EmptyLine}

\* The lines written to a session whose ACK writes may fail
FaultyLinkLines == {JoyThree, JOYSTICKS, PING, PingBadUtf, EmptyLine}

RobotInit ==
    /\ wire = <<>>
    /\ received = <<>>
    /\ buffer = <<>>
    /\ running = TRUE
    /\ lastRead = "none"
    /\ events = <<>>
    /\ sent = 0
    /\ ackFails = 0

\* The peer of the accepted stream writes one message
ClientWrite(line) ==
    /\ running
    /\ sent < MaxSent
    /\ sent' = sent + 1
    /\ wire' = wire \o line \o <<NL>>
    /\ UNCHANGED <<received, buffer, running, lastRead, events, ackFails>>
    /\ UNCHANGED nonRobotVars

\* robot.rs:93: buffer.iter().position(|&b| b == b'\n'), 0 for None
NewlinePosLast(buf) ==
    IF \E i \in 1..Len(buf) : buf[i] = NL
    THEN CHOOSE i \in 1..Len(buf) : buf[i] = NL /\ \A j \in (i + 1)..Len(buf) : buf[j] # NL
    ELSE 0
NewlinePos(buf) == FirstPos(buf, {NL})

AckEvent(ok) == [kind |-> "ack", ok |-> ok]

\* robot.rs:93-100: the inner loop.  f = 0: every ACK write succeeds;
\* f = k > 0: the k-th ACK write of this loop fails, and the loop breaks
\* before buffer.drain.
RECURSIVE DrainLines(_, _, _)
DrainLines(buf, f, evs) ==
    LET pos == NewlinePos(buf)
    IN  IF pos = 0
        THEN [buffer |-> buf, events |-> evs, ack_failed |-> FALSE]
        ELSE LET msg == Utf8Lossy(SubSeq(buf, 1, pos - 1))
                 h   == handle_command(msg)
                 d   == [kind |-> "dispatch", line |-> msg,
                         outcome |-> h.outcome, speeds |-> h.speeds]
             IN  IF f = 1
                 THEN [buffer |-> buf, events |-> evs \o <<d, AckEvent(FALSE)>>,
                       ack_failed |-> TRUE]
                 ELSE DrainLines(SubSeq(buf, pos + 1, Len(buf)),
                                 IF f = 0 THEN 0 ELSE f - 1,
                                 evs \o <<d, AckEvent(TRUE)>>)

\* robot.rs:86-110: which outcomes of an iteration leave the outer loop.
\* The break at robot.rs:97 leaves the inner while loop only.
BreaksLoopOnAckFailure(outcome, ack_failed) == outcome \in {"Eof", "Err"} \/ ack_failed
BreaksLoop(outcome, ack_failed) == outcome \in {"Eof", "Err"}

NewlineCount(s) == Cardinality({i \in 1..Len(s) : s[i] = NL})

\* robot.rs:91-101: Ok(n), n > 0
SessionReadData(n, f) ==
    /\ running
    /\ n \in 1..(IF Len(wire) < TempBufSize THEN Len(wire) ELSE TempBufSize)
    /\ LET chunk == SubSeq(wire, 1, n)
           r     == DrainLines(buffer \o chunk, f, events)
       IN  /\ f \in 0..NewlineCount(buffer \o chunk)
           /\ f > 0 => ackFails < MaxAckFails
           /\ wire' = SubSeq(wire, n + 1, Len(wire))
           /\ received' = received \o chunk
           /\ buffer' = r.buffer
           /\ events' = r.events
           /\ ackFails' = IF r.ack_failed THEN ackFails + 1 ELSE ackFails
           /\ running' = ~BreaksLoop("Data", r.ack_failed)
    /\ lastRead' = "Data"
    /\ UNCHANGED sent
    /\ UNCHANGED nonRobotVars

\* robot.rs:87-90: Ok(0), every byte was read and the peer has closed
SessionReadEof ==
    /\ running
    /\ wire = <<>>
    /\ lastRead' = "Eof"
    /\ running' = ~BreaksLoop("Eof", FALSE)
    /\ UNCHANGED <<wire, received, buffer, events, sent, ackFails>>
    /\ UNCHANGED nonRobotVars

\* robot.rs:102-105: every byte was read and the peer is still there; sleep
\* and retry
SessionReadWouldBlock ==
    /\ running
    /\ wire = <<>>
    /\ lastRead' = "WouldBlock"
    /\ running' = ~BreaksLoop("WouldBlock", FALSE)
    /\ UNCHANGED <<wire, received, buffer, events, sent, ackFails>>
    /\ UNCHANGED nonRobotVars

\* robot.rs:106-109: any other read error
SessionReadErr ==
    /\ running
    /\ lastRead' = "Err"
    /\ running' = ~BreaksLoop("Err", FALSE)
    /\ UNCHANGED <<wire, received, buffer, events, sent, ackFails>>
    /\ UNCHANGED nonRobotVars

\* One read of data, the ACK writes failing or not
SessionRead ==
    \E n \in 1..Len(wire) :
        \E f \in 0..NewlineCount(buffer \o SubSeq(wire, 1, n)) : SessionReadData(n, f)

\* One read of data on a link whose ACK writes all succeed
SessionReadAcked == \E n \in 1..Len(wire) : SessionReadData(n, 0)

RobotNext ==
    \/ \E line \in FaultyLinkLines : ClientWrite(line)
    \/ SessionRead
    \/ SessionReadEof
    \/ SessionReadWouldBlock
    \/ SessionReadErr

DispatchNext ==
    \/ \E line \in ClientLines : ClientWrite(line)
    \/ SessionReadAcked
    \/ SessionReadEof
    \/ SessionReadWouldBlock
    \/ SessionReadErr

(***************************************************************************)
(* Mapper driven over the grid                                             *)
(***************************************************************************)
MapperIdle ==
    /\ data = [lx |-> 0, ly |-> 0, rx |-> 0, ry |-> 0]
    /\ motor_speeds = NotComputed

MapperInit ==
    /\ data \in JoystickSamples
    /\ motor_speeds = NotComputed

\* robot.rs:58
Calculate ==
    /\ motor_speeds = NotComputed
    /\ motor_speeds' = calculate_motor_speeds(data)
    /\ UNCHANGED data
    /\ UNCHANGED nonMapperVars

MapperNext == Calculate

(***************************************************************************)
(* Gamepad polling timer (driver.rs:109-181).  Times are in milliseconds;  *)
(* an f32 is a sign and a magnitude in 1/One units, so that -0.0 differs   *)
(* from 0.0 as it does when printed.                                       *)
(***************************************************************************)
\* driver.rs:113: Duration::from_secs(1)
PingInterval == 1000
\* driver.rs:116: Duration::from_millis(16)
TickPeriod == 16
\* A tick the event loop ran late
LateTick == PingInterval \div 2
\* Time from the return of one tick to the next tick's elapsed() call
TickGaps == {TickPeriod, LateTick}

F32(neg, mag) == [neg |-> neg, mag |-> mag]
Zero32 == F32(FALSE, 0)
\* -v
Neg32(x) == [x EXCEPT !.neg = ~x.neg]
\* The number an f32 stands for, in 1/One units
Num32(x) == IF x.neg THEN 0 - x.mag ELSE x.mag

DigitChar(d) ==
    CASE d = 0 -> "0" [] d = 1 -> "1" [] d = 2 -> "2" [] d = 3 -> "3"
      [] d = 4 -> "4" [] d = 5 -> "5" [] d = 6 -> "6" [] d = 7 -> "7"
      [] d = 8 -> "8" [] d = 9 -> "9"

RECURSIVE NatDigits(_)
NatDigits(n) ==
    IF n < 10 THEN <<DigitChar(n)>>
    ELSE NatDigits(n \div 10) \o <<DigitChar(n % 10)>>

\* driver.rs:172: "{}" of an f32: sign, integer part, and the fraction only
\* when it is not zero
FormatF32(x) ==
    (IF x.neg THEN <<"-">> ELSE <<>>)
        \o NatDigits(x.mag \div One)
        \o (IF x.mag % One = 0 THEN <<>> ELSE <<".", DigitChar(x.mag % One)>>)

\* The events gilrs.next_event() returns: changes of the four stick axes,
\* the edges of a button, and a kind that is neither
GamepadEvents ==
    {[type |-> "AxisChanged", code |-> "LeftStickX", v |-> x] :
        x \in {F32(TRUE, One), F32(FALSE, One \div 2)}}
    \cup {[type |-> "AxisChanged", code |-> "LeftStickY", v |-> F32(FALSE, One \div 2)],
          [type |-> "AxisChanged", code |-> "RightStickX", v |-> F32(FALSE, One \div 2)],
          [type |-> "AxisChanged", code |-> "RightStickY", v |-> F32(TRUE, One)],
          [type |-> "ButtonPressed", code |-> "South", v |-> Zero32],
          [type |-> "ButtonReleased", code |-> "South", v |-> Zero32],
          [type |-> "Connected", code |-> "none", v |-> Zero32]}

\* The event sequences of at most n events one tick can drain
EventSeqs(n) == UNION {[1..k -> GamepadEvents] : k \in 0..n}

\* driver.rs:123-128: the sample starts from zero in every tick
ZeroJoystick == [lx |-> Zero32, ly |-> Zero32, rx |-> Zero32, ry |-> Zero32]
FreshJoystickKept(prev) == prev
FreshJoystick(prev) == ZeroJoystick

\* driver.rs:118
PingDueStrict(elapsed) == elapsed > PingInterval
PingDue(elapsed) == elapsed >= PingInterval

\* driver.rs:119
PingMsg == [kind |-> "PING", text |-> PING \o <<NL>>]

\* driver.rs:155, 159: format!("BTN {:?} DOWN\n", btn), format!("BTN {:?} UP\n", btn)
BtnMsg(code, down) ==
    [kind |-> "BTN",
     text |-> <<"B", "T", "N", " ">>
              \o (IF code = "South" THEN <<"S", "o", "u", "t", "h">> ELSE <<"?">>)
              \o (IF down THEN <<" ", "D", "O", "W", "N">> ELSE <<" ", "U", "P">>)
              \o <<NL>>]

\* driver.rs:170-177
JoysticksMsg(j) ==
    [kind |-> "JOYSTICKS",
     text |-> JOYSTICKS \o <<" ">> \o FormatF32(j.lx) \o <<",">> \o FormatF32(j.ly)
              \o <<",">> \o FormatF32(j.rx) \o <<",">> \o FormatF32(j.ry) \o <<NL>>]

\* driver.rs:136-162: the match on ev.event, the sample
AfterEvent(j, ev) ==
    IF ev.type # "AxisChanged" THEN j
    ELSE CASE ev.code = "LeftStickX"  -> [j EXCEPT !.lx = ev.v]
           [] ev.code = "LeftStickY"  -> [j EXCEPT !.ly = Neg32(ev.v)]
           [] ev.code = "RightStickX" -> [j EXCEPT !.rx = ev.v]
           [] ev.code = "RightStickY" -> [j EXCEPT !.ry = Neg32(ev.v)]
           [] OTHER -> j

\* driver.rs:153-160: the match on ev.event, the messages sent at once
ButtonMessages(ev) ==
    CASE ev.type = "ButtonPressed"  -> <<BtnMsg(ev.code, TRUE)>>
      [] ev.type = "ButtonReleased" -> <<BtnMsg(ev.code, FALSE)>>
      [] OTHER -> <<>>

\* driver.rs:132-164: the while loop over gilrs.next_event(), the window
\* being alive (ui_timer_clone.upgrade() is Some while ui.run() runs);
\* event_occurred is set for every event drained
RECURSIVE DrainEvents(_, _, _, _)
DrainEvents(evs, j, msgs, occurred) ==
    IF evs = <<>>
    THEN [joystick_values |-> j, msgs |-> msgs, event_occurred |-> occurred]
    ELSE DrainEvents(Tail(evs), AfterEvent(j, Head(evs)),
                     msgs \o ButtonMessages(Head(evs)), TRUE)

\* The stick axis a field of the sample belongs to
AxisOf(field) ==
    CASE field = "lx" -> "LeftStickX" [] field = "ly" -> "LeftStickY"
      [] field = "rx" -> "RightStickX" [] field = "ry" -> "RightStickY"

Changes(evs, field) ==
    SelectSeq(evs, LAMBDA ev : ev.type = "AxisChanged" /\ ev.code = AxisOf(field))

TickInit ==
    /\ since_ping = 0
    /\ joystick_values = ZeroJoystick
    /\ tickElapsed = 0
    /\ tickEvents = <<>>
    /\ tickMsgs = <<>>
    /\ staleAxis = FALSE

tickFrame == <<last_state, current_address_index, nextLink, notes, cycleLog,
               lastOp, failedLinks, sends, transmitted, linkBorn, readers,
               telemetry, robotVars, mapperVars, liveVars, lockVars>>

\* driver.rs:117-180: one run of the timer callback, d ms after the last
\* one returned, draining evs; fail: a send of this tick on the Link fails
\* (send_to_robot then empties the slot and the tick's later messages are
\* dropped).  The histories of Spec are not recorded.
Tick(d, evs, fail) ==
    LET elapsed == since_ping + d
        r       == DrainEvents(evs, FreshJoystick(joystick_values), <<>>, FALSE)
        msgs    == (IF PingDue(elapsed) THEN <<PingMsg>> ELSE <<>>)
                   \o r.msgs
                   \o (IF r.event_occurred THEN <<JoysticksMsg(r.joystick_values)>>
                       ELSE <<>>)
    IN  /\ fail => (slot # NoLink /\ msgs # <<>>)
        /\ since_ping' = IF PingDue(elapsed) THEN 0 ELSE elapsed
        /\ joystick_values' = r.joystick_values
        /\ tickElapsed' = elapsed
        /\ tickEvents' = evs
        /\ tickMsgs' = msgs
        /\ staleAxis' = \E f \in DOMAIN joystick_values :
                            joystick_values[f].mag # 0 /\ Changes(evs, f) = <<>>
        /\ slot' = IF slot # NoLink THEN SlotAfterSend(slot, ~fail) ELSE slot
        /\ UNCHANGED tickFrame

\* Ticks that drain up to MaxEvents events, no Link in the slot (every
\* message handed to send_to_robot is dropped)
TickNext ==
    \E evs \in EventSeqs(MaxEvents) : Tick(LateTick, evs, FALSE)

\* Ticks at the timer's period and late ones, draining at most one event
HeartbeatNext ==
    \/ \E d \in TickGaps, evs \in EventSeqs(1), fail \in BOOLEAN : Tick(d, evs, fail)
    \/ LiveMonitorConnect(TRUE)

(***************************************************************************)
(* Specifications                                                          *)
(***************************************************************************)
Init == OpInit /\ RobotInit /\ MapperIdle /\ LiveIdle /\ LockInit /\ TickInit

Spec == Init /\ [][Next]_vars

\* A session whose ACK writes may fail
SpecRobot == Init /\ [][RobotNext]_vars

\* A session whose ACK writes all succeed, fed every kind of line
SpecDispatch == Init /\ [][DispatchNext]_vars

InitMapper == OpInit /\ RobotInit /\ MapperInit /\ LiveIdle /\ LockInit /\ TickInit

SpecMapper == InitMapper /\ [][MapperNext]_vars

InitLive == OpInit /\ RobotInit /\ MapperIdle /\ LiveInit /\ LockInit /\ TickInit

\* The monitor thread keeps being scheduled and every connect returns
SpecLive == InitLive /\ [][LiveNext]_vars /\ WF_vars(LiveMonitorCycle)

\* The three threads contending for the slot's mutex
SpecLock == Init /\ [][LockNext]_vars

\* The timer callback and the events it drains
SpecTick == Init /\ [][TickNext]_vars

\* The timer callback and the heartbeat
SpecHeartbeat == Init /\ [][HeartbeatNext]_vars

(***************************************************************************)
(* Robot side: properties                                                  *)
(***************************************************************************)
DispatchEvents == SelectSeq(events, LAMBDA e : e.kind = "dispatch")

\* The lines handed to handle_command, in order
Dispatched == [i \in 1..Len(DispatchEvents) |-> DispatchEvents[i].line]

NewlinePositions(s) == {i \in 1..Len(s) : s[i] = NL}

\* The k-th newline of s
NthNewline(s, k) ==
    CHOOSE p \in NewlinePositions(s) :
        Cardinality({q \in NewlinePositions(s) : q < p}) = k - 1

\* The newline-terminated lines of a byte stream, without their newlines
LinesOf(s) ==
    [k \in 1..Cardinality(NewlinePositions(s)) |->
        SubSeq(s, (IF k = 1 THEN 0 ELSE NthNewline(s, k - 1)) + 1,
                  NthNewline(s, k) - 1)]

\* The bytes of s after its last newline
AfterLastNewline(s) ==
    LET P    == NewlinePositions(s)
        last == IF P = {} THEN 0 ELSE CHOOSE p \in P : \A q \in P : q <= p
    IN  SubSeq(s, last + 1, Len(s))

\* C5: with every ACK write succeeding, after any reads (any split of the
\* stream into chunks) the lines dispatched are the newline-terminated lines
\* of the bytes received, in order; the events are dispatch, ACK, dispatch,
\* ACK, ...; and the accumulator holds exactly the bytes after the last
\* newline received.
C5_Framing ==
    ackFails = 0 =>
        /\ Dispatched = [k \in 1..Len(LinesOf(received)) |-> Utf8Lossy(LinesOf(received)[k])]
        /\ Len(events) = 2 * Len(Dispatched)
        /\ \A i \in 1..Len(events) :
               IF i % 2 = 1 THEN events[i].kind = "dispatch"
                            ELSE events[i] = AckEvent(TRUE)
        /\ buffer = AfterLastNewline(received)
        /\ \A i \in 1..Len(buffer) : buffer[i] # NL

\* C14: whether or not an ACK write fails, each newline-terminated line
\* received is dispatched exactly once, in order, and the accumulator holds
\* only the bytes after the last line dispatched (no line already dispatched
\* is still in it).
C14_DispatchedExactlyOnce ==
    /\ Dispatched = [k \in 1..Len(LinesOf(received)) |-> Utf8Lossy(LinesOf(received)[k])]
    /\ buffer = AfterLastNewline(received)

\* C5 witness: of the stream "JOYSTICKS 1,1,0,0\nPING\n" the reads so far
\* ended in the middle of PING: the first line was dispatched and
\* acknowledged, and the accumulator holds the partial line.
C5_Witness ==
    /\ Dispatched = <<JoyFour>>
    /\ Len(events) = 2
    /\ buffer = <<"P", "I">>
    /\ wire = <<"N", "G", NL>>

\* The comma-separated tokens of a JOYSTICKS line (none without a payload)
PayloadTokens(line) ==
    LET parts == SplitWhitespace(line)
    IN  IF Len(parts) < 2 THEN <<>> ELSE Split(parts[2], {","})

IsJoysticks(line) ==
    LET parts == SplitWhitespace(line)
    IN  parts # <<>> /\ parts[1] = JOYSTICKS

\* C6: calculate_motor_speeds is invoked for a line only when its payload is
\* exactly four comma-separated tokens that all parse as floats.
C6_MotorOnlyOnFourFloats ==
    \A i \in 1..Len(DispatchEvents) :
        DispatchEvents[i].speeds # NotComputed =>
            LET toks == PayloadTokens(DispatchEvents[i].line)
            IN  /\ IsJoysticks(DispatchEvents[i].line)
                /\ Len(toks) = 4
                /\ \A k \in 1..Len(toks) : IsF32(toks[k])

NumericCount(line) == Len(SelectSeq(PayloadTokens(line), IsF32))

\* C7: a JOYSTICKS line carrying fewer or more than four numeric values sets
\* no motor speeds, its dispatch is followed by exactly one ACK, and the
\* session goes on: every newline-terminated line received is dispatched.
C7_WrongCountRejected ==
    /\ \A i \in 1..Len(events) :
           (events[i].kind = "dispatch" /\ IsJoysticks(events[i].line)
              /\ NumericCount(events[i].line) # 4)
           => /\ events[i].speeds = NotComputed
              /\ i < Len(events) /\ events[i + 1] = AckEvent(TRUE)
              /\ (i + 2 <= Len(events) => events[i + 2].kind = "dispatch")
    /\ running => Len(Dispatched) = Cardinality(NewlinePositions(received))

\* C7 witness: "JOYSTICKS 1,2,3" was dispatched without a motor update and
\* acknowledged, and the line after it was processed.
C7_Witness ==
    /\ Len(events) = 4
    /\ events[1].kind = "dispatch" /\ events[1].line = JoyThree
    /\ events[1].speeds = NotComputed
    /\ events[2] = AckEvent(TRUE)
    /\ events[3].kind = "dispatch" /\ events[3].outcome = "motor"

\* C8: the session loop has ended iff its last read returned zero bytes or
\* failed with an error other than would-block; data (whatever its lines),
\* a failed ACK write and would-block leave it running.
C8_EndsOnlyOnReadFailure ==
    /\ running <=> lastRead \notin {"Eof", "Err"}
    /\ lastRead \in {"Data", "WouldBlock", "none"} => running

\* C8 witness: the session dispatched a malformed JOYSTICKS line and an
\* unknown command, had an ACK write fail, and ended on a zero-byte read.
C8_Witness ==
    /\ ~running /\ lastRead = "Eof"
    /\ ackFails > 0
    /\ \E i \in 1..Len(DispatchEvents) : DispatchEvents[i].outcome = "invalid_count"
    /\ \E i \in 1..Len(DispatchEvents) : DispatchEvents[i].outcome = "unknown"

(***************************************************************************)
(* Mapper: properties                                                      *)
(***************************************************************************)
\* m1..m4 as the design states them
M(d) == <<  d.lx + d.ly + d.rx, -d.lx + d.ly - d.rx,
           -d.lx - d.ly + d.rx,  d.lx - d.ly - d.rx >>

Peak(d) == LET S == {Abs(M(d)[i]) : i \in 1..4}
           IN  CHOOSE p \in S : \A q \in S : q <= p

\* The fraction r has the integer value n
ValueIs(r, n) == r.den > 0 /\ r.num = n * r.den

\* C9: every result component has magnitude at most 1; the results are the
\* raw combinations m1..m4 divided by one common positive factor (ratios and
\* signs are kept); ry does not affect the result.
C9_Normalized ==
    motor_speeds # NotComputed =>
        /\ \A i \in 1..4 :
               /\ motor_speeds[i].den > 0
               /\ Abs(motor_speeds[i].num) <= motor_speeds[i].den
        /\ \E f \in 1..(3 * MaxHalves * One) :
               \A i \in 1..4 : motor_speeds[i].num * f = M(data)[i] * motor_speeds[i].den
        /\ \A i, k \in 1..4 :
               motor_speeds[i].num * motor_speeds[k].den * M(data)[k]
                   = motor_speeds[k].num * motor_speeds[i].den * M(data)[i]
        /\ \A v \in GridValues :
               calculate_motor_speeds([data EXCEPT !.ry = v]) = motor_speeds

\* C9 witness: a sample outside [-1, 1] with peak above 1 and ry set was mapped.
C9_Witness ==
    /\ motor_speeds # NotComputed
    /\ data.lx = 2 * One /\ data.ly = -One /\ data.rx = One /\ data.ry = One
    /\ Peak(data) > One

\* C10: when the peak of m1..m4 is at most 1 the result is (m1, m2, m3, m4)
\* unscaled; (0,0,0,0) maps to (0,0,0,0), (1,0,0,0) to (1,-1,-1,1) and
\* (1,1,0,0), of peak 2, to (1,0,-1,0).
C10_IdentityBelowOne ==
    motor_speeds # NotComputed =>
        /\ Peak(data) <= One =>
               \A i \in 1..4 :
                   /\ motor_speeds[i].den > 0
                   /\ motor_speeds[i].num * One = M(data)[i] * motor_speeds[i].den
        /\ data = [lx |-> 0, ly |-> 0, rx |-> 0, ry |-> 0] =>
               \A i \in 1..4 : ValueIs(motor_speeds[i], 0)
        /\ data = [lx |-> One, ly |-> 0, rx |-> 0, ry |-> 0] =>
               /\ ValueIs(motor_speeds[1], 1) /\ ValueIs(motor_speeds[2], -1)
               /\ ValueIs(motor_speeds[3], -1) /\ ValueIs(motor_speeds[4], 1)
        /\ data = [lx |-> One, ly |-> One, rx |-> 0, ry |-> 0] =>
               /\ ValueIs(motor_speeds[1], 1) /\ ValueIs(motor_speeds[2], 0)
               /\ ValueIs(motor_speeds[3], -1) /\ ValueIs(motor_speeds[4], 0)

\* C10 witness: (1,0,0,0), of peak exactly 1, was mapped.
C10_Witness ==
    /\ motor_speeds # NotComputed
    /\ data = [lx |-> One, ly |-> 0, rx |-> 0, ry |-> 0]
    /\ Peak(data) = One

(***************************************************************************)
(* Gamepad polling timer: properties                                       *)
(***************************************************************************)
OfKind(msgs, kind) == SelectSeq(msgs, LAMBDA m : m.kind = kind)

IsAxisOrButton(ev) == ev.type \in {"AxisChanged", "ButtonPressed", "ButtonReleased"}

ButtonEdges(evs) ==
    SelectSeq(evs, LAMBDA ev : ev.type \in {"ButtonPressed", "ButtonReleased"})

\* C17: a tick emits exactly one JOYSTICKS message when it drained at least
\* one axis or button event and none otherwise; the JOYSTICKS message is the
\* tick's last message, a PING its first, and the BTN messages are one per
\* button edge, in the order of the events.
C17_JoysticksOnlyOnInput ==
    LET edges == ButtonEdges(tickEvents)
    IN  /\ Len(OfKind(tickMsgs, "JOYSTICKS")) =
               IF \E i \in 1..Len(tickEvents) : IsAxisOrButton(tickEvents[i])
               THEN 1 ELSE 0
        /\ \A i \in 1..Len(tickMsgs) :
               /\ tickMsgs[i].kind = "JOYSTICKS" => i = Len(tickMsgs)
               /\ tickMsgs[i].kind = "PING" => i = 1
        /\ OfKind(tickMsgs, "BTN") =
               [i \in 1..Len(edges) |->
                   BtnMsg(edges[i].code, edges[i].type = "ButtonPressed")]

\* The value an axis carries after the events of one tick alone, in 1/One
\* units: its last change, negated for the Y axes, 0 without a change
LastChange(evs, field) ==
    LET c == Changes(evs, field)
        v == IF c = <<>> THEN 0 ELSE Num32(c[Len(c)].v)
    IN  IF field \in {"ly", "ry"} THEN 0 - v ELSE v

\* The four numbers a JOYSTICKS message carries, as the robot parses them
JoysticksPayload(m) ==
    ParsedSpeeds(SubSeq(m.text, Len(JOYSTICKS) + 2, Len(m.text) - 1))

\* C18: the JOYSTICKS message of a tick carries, for each axis, the value
\* of the axis's last change among the events of that tick (negated for
\* LeftStickY and RightStickY) and 0 when the tick drained no change of it,
\* whatever the axis was in earlier ticks.
C18_PayloadFromThisTick ==
    \A i \in 1..Len(tickMsgs) :
        tickMsgs[i].kind = "JOYSTICKS" =>
            JoysticksPayload(tickMsgs[i]) =
                <<LastChange(tickEvents, "lx"), LastChange(tickEvents, "ly"),
                  LastChange(tickEvents, "rx"), LastChange(tickEvents, "ry")>>

\* C18 witness: an axis that was off zero before the tick had no change in
\* it; the tick drained two changes of LeftStickX, -1.0 and then 0.5, and
\* sent 0.5 for it and zero for every other axis.
C18_Witness ==
    /\ staleAxis
    /\ Len(tickEvents) = 2
    /\ Changes(tickEvents, "lx") = tickEvents
    /\ tickEvents[1].v = F32(TRUE, One)
    /\ tickMsgs # <<>>
    /\ JoysticksPayload(tickMsgs[Len(tickMsgs)]) = <<One \div 2, 0, 0, 0>>

\* C19 as stated: the last tick handed a PING to send_to_robot exactly when
\* the elapsed time it read exceeded PingInterval; the PING was its first
\* message and the timer was reset.
C19_PingWhenExceeded ==
    /\ Len(OfKind(tickMsgs, "PING")) = IF tickElapsed > PingInterval THEN 1 ELSE 0
    /\ OfKind(tickMsgs, "PING") # <<>> => (tickMsgs[1] = PingMsg /\ since_ping = 0)

\* C19, amended: the last tick handed exactly one PING to send_to_robot when
\* the elapsed time it read was at least PingInterval, and none when it was
\* less; the PING was the tick's first message and the timer was reset with
\* it, whatever the events, the slot and the outcome of the send; so a PING
\* comes no sooner than PingInterval after the reset before it.
C19_PingWhenDue ==
    /\ Len(OfKind(tickMsgs, "PING")) = IF tickElapsed >= PingInterval THEN 1 ELSE 0
    /\ OfKind(tickMsgs, "PING") # <<>> =>
           (tickMsgs[1] = PingMsg /\ since_ping = 0 /\ tickElapsed >= PingInterval)
    /\ OfKind(tickMsgs, "PING") = <<>> => since_ping = tickElapsed

\* C19 witness: a tick that read an elapsed time of exactly PingInterval,
\* drained no event and found no Link in the slot handed a PING over.
C19_Witness ==
    /\ tickElapsed = PingInterval
    /\ tickEvents = <<>>
    /\ slot = NoLink
    /\ tickMsgs = <<PingMsg>>
    /\ since_ping = 0

=============================================================================
